---- MODULE Spec2Model ----
(***************************************************************************)
(* Webhook verification and payload decoding of the sanity client          *)
(* (src/sanity/webhook.py, src/sanity/client.py).                          *)
(*                                                                         *)
(* Python values are modelled as tagged records: None, Str(s) with s a     *)
(* sequence of one-character strings, List(l), Bool(b).  A dict is a       *)
(* function whose domain is its set of keys.  A call yields Return(v) or   *)
(* Raise(exception, message).                                              *)
(***************************************************************************)
EXTENDS Integers, Sequences, FiniteSets, TLC

\* event, secret: the arguments of validate_webhook and parse_webhook;
\* arg: the argument of a helper called on its own; now: datetime.today(), in
\* microseconds since the epoch; pc, result: whether the call was made, and
\* what it gave.
VARIABLES event, secret, arg, now, pc, result

vars == <<event, secret, arg, now, pc, result>>

\* ------------------------------------------------------------ Python values

None == [type |-> "NoneType"]

Str(s) == [type |-> "str", v |-> s]

List(l) == [type |-> "list", v |-> l]

Bool(b) == [type |-> "bool", v |-> b]

Return(v) == [exc |-> "", val |-> v]

Raise(e, m) == [exc |-> e, msg |-> m]

\* `not x` for None and str
Falsy(x) == x = None \/ (x.type = "str" /\ x.v = <<>>)

\* dict.get(key, default)
Get(d, k, default) == IF k \in DOMAIN d THEN d[k] ELSE default

EmptyDict == [k \in {} |-> None]

AsciiPrintable ==
    <<" ","!","\"","#","$","%","&","'","(",")","*","+",",","-",".","/","0","1","2","3","4","5","6","7","8","9",":",";","<","=",">","?","@","A","B","C","D","E","F","G","H","I","J","K","L","M","N","O","P","Q","R","S","T","U","V","W","X","Y","Z","[","\\","]","^","_","U+0060","a","b","c","d","e","f","g","h","i","j","k","l","m","n","o","p","q","r","s","t","u","v","w","x","y","z","{","|","}","~">>

Base64Alphabet ==
    <<"A","B","C","D","E","F","G","H","I","J","K","L","M","N","O","P","Q","R","S","T","U","V","W","X","Y","Z","a","b","c","d","e","f","g","h","i","j","k","l","m","n","o","p","q","r","s","t","u","v","w","x","y","z","0","1","2","3","4","5","6","7","8","9","+","/">>

Digits == <<"0","1","2","3","4","5","6","7","8","9">>

HexDigits == <<"0","1","2","3","4","5","6","7","8","9","A","B","C","D","E","F">>

\* n in hexadecimal, in at least width digits
RECURSIVE Hex(_, _)
Hex(n, width) ==
    IF width <= 1 /\ n < 16 THEN HexDigits[n + 1]
    ELSE Hex(n \div 16, width - 1) \o HexDigits[(n % 16) + 1]

\* chr(n), one sequence element per character: a printable ASCII character
\* is itself, any other character is named by its code point
Chr(n) == IF n >= 32 /\ n <= 126 THEN AsciiPrintable[n - 31] ELSE "U+" \o Hex(n, 4)

\* a character outside ASCII: e with an acute accent
NonAscii == Chr(233)

AsciiChars == {Chr(n) : n \in 0..127}

\* the characters of str.isspace(), which str.strip() removes
Whitespace ==
    {Chr(n) : n \in (9..13) \cup (28..32) \cup {133, 160, 5760} \cup (8192..8202)
                    \cup {8232, 8233, 8239, 8287, 12288}}

Range(s) == {s[i] : i \in 1..Len(s)}

IndexOf(c, s) == CHOOSE i \in 1..Len(s) : s[i] = c

\* ------------------------------------------------------------ str methods

\* position of the first occurrence of character c in s, 0 if none
Find(s, c) ==
    IF \E i \in 1..Len(s) : s[i] = c
    THEN CHOOSE i \in 1..Len(s) : s[i] = c /\ \A j \in 1..(i - 1) : s[j] # c
    ELSE 0

\* str.split(sep) for a one-character separator.  The loop over the
\* characters halves the string and finishes the left half before it enters
\* the right half, so the depth of the evaluation grows with the logarithm of
\* the length; the loops below are written the same way.
Split(s, sep) ==
    LET Piece(parts, c) ==
            IF c = sep THEN Append(parts, <<>>)
            ELSE [parts EXCEPT ![Len(parts)] = Append(@, c)]
        RECURSIVE Loop(_, _, _)
        Loop(lo, hi, st) ==
            IF lo > hi THEN st
            ELSE IF lo = hi THEN Piece(st, s[lo])
            ELSE LET mid == (lo + hi) \div 2
                     left == Loop(lo, mid, st)
                 IN IF left = left THEN Loop(mid + 1, hi, left) ELSE left
    IN Loop(1, Len(s), <<<<>>>>)

\* str.replace(old, new) for one-character old and new
Replace(s, old, new) == [i \in 1..Len(s) |-> IF s[i] = old THEN new ELSE s[i]]

\* str.rstrip(chars) for a one-character chars
RStrip(s, c) ==
    IF \A i \in 1..Len(s) : s[i] = c THEN <<>>
    ELSE SubSeq(s, 1, CHOOSE j \in 1..Len(s) :
                          s[j] # c /\ \A k \in (j + 1)..Len(s) : s[k] = c)

\* the first index from i on whose character is outside chars, past the end
\* of s if there is none
SkipChars(s, i, chars) ==
    IF \A j \in i..Len(s) : s[j] \in chars THEN IF i > Len(s) THEN i ELSE Len(s) + 1
    ELSE CHOOSE j \in i..Len(s) : s[j] \notin chars /\ \A k \in i..(j - 1) : s[k] \in chars

\* s with the leading and trailing characters of the set chars removed
StripChars(s, chars) ==
    LET first == SkipChars(s, 1, chars)
    IN IF first > Len(s) THEN <<>>
       ELSE SubSeq(s, first,
                CHOOSE j \in first..Len(s) :
                    s[j] \notin chars /\ \A k \in (j + 1)..Len(s) : s[k] \in chars)

\* str.strip()
Strip(s) == StripChars(s, Whitespace)

\* sep.join(parts)
RECURSIVE Join(_, _)
Join(parts, sep) ==
    IF parts = <<>> THEN <<>>
    ELSE IF Len(parts) = 1 THEN parts[1]
    ELSE parts[1] \o <<sep>> \o Join(Tail(parts), sep)

\* ------------------------------------------------------------ parse_signature

\* ParseElement with the first t kept instead of the last
ParseElement_FirstTimestamp(st, element) ==
    IF st.exc # "" THEN st
    ELSE LET kv == Split(element, "=")
         IN IF Len(kv) # 2 THEN Raise("ValueError", "values to unpack")
            ELSE Return(<<IF kv[1] = <<"t">> /\ st.val[1] = None
                          THEN Str(kv[2]) ELSE st.val[1],
                          IF kv[1] = <<"v","1">> THEN Append(st.val[2], Str(kv[2]))
                          ELSE st.val[2]>>)

\* one turn of the for loop of parse_signature over header_elements; st is
\* the timestamp and the signatures read so far, or the error raised
ParseElement(st, element) ==
    IF st.exc # "" THEN st
    ELSE LET kv == Split(element, "=")
         IN IF Len(kv) > 2
            THEN Raise("ValueError", "too many values to unpack (expected 2)")
            ELSE IF Len(kv) < 2
            THEN Raise("ValueError", "not enough values to unpack (expected 2, got 1)")
            ELSE LET k == kv[1]
                     v == kv[2]
                 IN Return(<<IF k = <<"t">> THEN Str(v) ELSE st.val[1],
                             IF k = <<"v","1">> THEN Append(st.val[2], Str(v))
                             ELSE st.val[2]>>)

\* the for loop of parse_signature and its return
ParseElements(elements) ==
    LET RECURSIVE Loop(_, _, _)
        Loop(lo, hi, st) ==
            IF lo > hi THEN st
            ELSE IF lo = hi THEN ParseElement(st, elements[lo])
            ELSE LET mid == (lo + hi) \div 2
                     left == Loop(lo, mid, st)
                 IN IF left = left THEN Loop(mid + 1, hi, left) ELSE left
        st == Loop(1, Len(elements), Return(<<None, <<>>>>))
    IN IF st.exc # "" THEN st ELSE Return(<<st.val[1], List(st.val[2])>>)

\* parse_signature rejecting an absent header instead of returning
parse_signature_AbsentRaises(signature_header) ==
    IF Falsy(signature_header) THEN Raise("ValueError", "missing signature header")
    ELSE ParseElements(Split(signature_header.v, ","))

parse_signature(signature_header) ==
    IF Falsy(signature_header) THEN Return(<<None, None>>)
    ELSE ParseElements(Split(signature_header.v, ","))

\* ------------------------------------------------------------ timestamp_is_valid

\* timedelta(minutes=5), in microseconds
FiveMinutes == 300000000

\* The model clock reads at most MaxClockMs milliseconds since the epoch, so
\* that microsecond arithmetic stays within TLC's integers.
MaxClockMs == 1000000

\* sys.get_int_max_str_digits(): int() refuses a longer run of digits
IntMaxStrDigits == 4300

\* The magnitudes, in milliseconds, from which datetime.fromtimestamp(ms / 1000)
\* fails, for instants after the epoch (Max) and before it (Min), the local
\* zone being UTC: from DatetimeMaxMs on the year is past 9999 and from
\* DatetimeMinMs on it is before 1 (ValueError), from LocaltimeMaxMs and
\* LocaltimeMinMs on localtime() fails (OSError), from TimeTMaxMs and
\* TimeTMinMs on the seconds do not fit time_t (OverflowError), and from
\* FloatMaxMs on the quotient ms / 1000 is no float (OverflowError).
DatetimeMaxMs ==
    <<"2","5","3","4","0","2","3","0","0","8","0","0","0","0","0">>

DatetimeMinMs ==
    <<"6","2","1","3","5","5","1","0","4","0","0","0","0","1">>

LocaltimeMaxMs ==
    <<"6","7","7","6","8","0","3","6","1","9","1","6","7","6","7","9","6","0",
      "0","0">>

LocaltimeMinMs ==
    <<"6","7","7","6","8","0","4","0","6","0","9","7","4","0","8","0","4","0",
      "0","1">>

TimeTMaxMs ==
    <<"9","2","2","3","3","7","2","0","3","6","8","5","4","7","7","5","2","9",
      "6","0","0","0">>

TimeTMinMs ==
    <<"9","2","2","3","3","7","2","0","3","6","8","5","4","7","7","6","8","3",
      "2","0","0","1">>

FloatMaxMs ==
    <<"1","7","9","7","6","9","3","1","3","4","8","6","2","3","1","5","8","0",
      "7","9","3","7","2","8","9","7","1","4","0","5","3","0","3","4","1","5",
      "0","7","9","9","3","4","1","3","2","7","1","0","0","3","7","8","2","6",
      "9","3","6","1","7","3","7","7","8","9","8","0","4","4","4","9","6","8",
      "2","9","2","7","6","4","7","5","0","9","4","6","6","4","9","0","1","7",
      "9","7","7","5","8","7","2","0","7","0","9","6","3","3","0","2","8","6",
      "4","1","6","6","9","2","8","8","7","9","1","0","9","4","6","5","5","5",
      "5","4","7","8","5","1","9","4","0","4","0","2","6","3","0","6","5","7",
      "4","8","8","6","7","1","5","0","5","8","2","0","6","8","1","9","0","8",
      "9","0","2","0","0","0","7","0","8","3","8","3","6","7","6","2","7","3",
      "8","5","4","8","4","5","8","1","7","7","1","1","5","3","1","7","6","4",
      "4","7","5","7","3","0","2","7","0","0","6","9","8","5","5","5","7","1",
      "3","6","6","9","5","9","6","2","2","8","4","2","9","1","4","8","1","9",
      "8","6","0","8","3","4","9","3","6","4","7","5","2","9","2","7","1","9",
      "0","7","4","1","6","8","4","4","4","3","6","5","5","1","0","7","0","4",
      "3","4","2","7","1","1","5","5","9","6","9","9","5","0","8","0","9","3",
      "0","4","2","8","8","0","1","7","7","9","0","4","1","7","4","4","9","7",
      "7","9","2","0","0","0">>

\* a run of digits without its leading zeros, one digit at least
StripZeros(d) ==
    LET first == SkipChars(d, 1, {"0"})
    IN SubSeq(d, IF first > Len(d) THEN Len(d) ELSE first, Len(d))

\* a < b for natural numbers given as digit sequences without leading zeros
DigitsLess(a, b) ==
    IF Len(a) # Len(b) THEN Len(a) < Len(b)
    ELSE \E i \in 1..Len(a) :
             /\ IndexOf(a[i], Digits) < IndexOf(b[i], Digits)
             /\ \A j \in 1..(i - 1) : a[j] = b[j]

RECURSIVE DigitsValue(_)
DigitsValue(d) ==
    IF d = <<>> THEN 0
    ELSE 10 * DigitsValue(SubSeq(d, 1, Len(d) - 1)) + (IndexOf(d[Len(d)], Digits) - 1)

RECURSIVE NatDigits(_)
NatDigits(n) ==
    IF n < 10 THEN <<Digits[n + 1]>> ELSE Append(NatDigits(n \div 10), Digits[(n % 10) + 1])

\* the code point of the digit zero of every block of Unicode decimal digits
DecimalZeros ==
    {48, 1632, 1776, 1984, 2406, 2534, 2662, 2790, 2918, 3046, 3174, 3302,
     3430, 3558, 3664, 3792, 3872, 4160, 4240, 6112, 6160, 6470, 6608, 6784,
     6800, 6992, 7088, 7232, 7248, 42528, 43216, 43264, 43472, 43504, 43600,
     44016, 65296, 66720, 68912, 69734, 69872, 69942, 70096, 70384, 70736,
     70864, 71248, 71360, 71472, 71904, 72016, 72784, 73040, 73120, 92768,
     92864, 93008, 120782, 120792, 120802, 120812, 120822, 123200, 123632,
     125264, 130032}

\* the characters of decimal value d, for d in 0..9
DecimalChars == [d \in 0..9 |-> {Chr(z + d) : z \in DecimalZeros}]

\* Py_UNICODE_TODECIMAL(c): the decimal value of character c, -1 if it has none
ToDecimal(c) ==
    IF c \in Range(Digits) THEN IndexOf(c, Digits) - 1
    ELSE IF c \in AsciiChars THEN 0 - 1
    ELSE IF \E d \in 0..9 : c \in DecimalChars[d]
    THEN CHOOSE d \in 0..9 : c \in DecimalChars[d]
    ELSE 0 - 1

\* what int() reads of a str.  An ASCII str is read as it is.  In any other
\* str the characters below 127 are copied, a blank becomes a space and a
\* decimal digit its ASCII digit, and the text ends in '?' at the first
\* character that is none of these (U+007F among them).
TransformDecimalAndSpaceToASCII(s) ==
    LET Copied(c) == c \in AsciiChars /\ c # Chr(127)
        Other(c) == ~Copied(c) /\ c \notin Whitespace /\ ToDecimal(c) < 0
        end == IF \A i \in 1..Len(s) : ~Other(s[i]) THEN Len(s)
               ELSE CHOOSE i \in 1..Len(s) : Other(s[i]) /\ \A j \in 1..(i - 1) : ~Other(s[j])
    IN IF \A i \in 1..Len(s) : s[i] \in AsciiChars THEN s
       ELSE [i \in 1..end |->
                IF Copied(s[i]) THEN s[i]
                ELSE IF s[i] \in Whitespace THEN " "
                ELSE IF ToDecimal(s[i]) >= 0 THEN Digits[ToDecimal(s[i]) + 1]
                ELSE "?"]

\* the blanks int() skips around the number (Py_ISSPACE)
IntSpace == {Chr(n) : n \in (9..13) \cup {32}}

\* digits with single underscores between them
DigitsAndUnderscores(b) ==
    /\ b # <<>>
    /\ b[1] # "_"
    /\ b[Len(b)] # "_"
    /\ \A i \in 1..Len(b) : b[i] \in Range(Digits) \cup {"_"}
    /\ \A i \in 1..(Len(b) - 1) : ~(b[i] = "_" /\ b[i + 1] = "_")

\* the digits and underscores that the text starts with
LeadingNumber(body) == SubSeq(body, 1, SkipChars(body, 1, Range(Digits) \cup {"_"}) - 1)

\* PyLong_FromString after the blanks and the sign.  The digits and
\* underscores are scanned and counted first, the limit on the digits is
\* applied next, and only then is the text after them looked at.  The
\* unbounded integer is kept as its sign and its digits without leading zeros.
PyLong_FromString(negative, body) ==
    LET number == LeadingNumber(body)
        digits == SelectSeq(number, LAMBDA c : c # "_")
    IN IF ~DigitsAndUnderscores(number)
       THEN Raise("ValueError", "invalid literal for int() with base 10")
       ELSE IF Len(digits) > IntMaxStrDigits
       THEN Raise("ValueError", "Exceeds the limit for integer string conversion")
       ELSE IF Len(number) < Len(body)
       THEN Raise("ValueError", "invalid literal for int() with base 10")
       ELSE Return([neg |-> negative /\ StripZeros(digits) # <<"0">>,
                    digits |-> StripZeros(digits)])

\* int(s) for a str s, base 10
int(s) ==
    LET text == StripChars(TransformDecimalAndSpaceToASCII(s), IntSpace)
        signed == text # <<>> /\ text[1] \in {"+", "-"}
    IN PyLong_FromString(signed /\ text[1] = "-", IF signed THEN Tail(text) ELSE text)

\* datetime.fromtimestamp(ms / 1000) in the zone UTC: the microseconds since
\* the epoch when the instant is within the model clock's range, "later" or
\* "earlier" when it is beyond every reading of the model clock, the error
\* when the quotient, the seconds or the year are out of range.
fromtimestamp(ms) ==
    LET m == ms.digits
    IN IF ~DigitsLess(m, FloatMaxMs)
       THEN Raise("OverflowError", "integer division result too large for a float")
       ELSE IF ~DigitsLess(m, IF ms.neg THEN TimeTMinMs ELSE TimeTMaxMs)
       THEN Raise("OverflowError", "timestamp out of range for platform time_t")
       ELSE IF ~DigitsLess(m, IF ms.neg THEN LocaltimeMinMs ELSE LocaltimeMaxMs)
       THEN Raise("OSError", "Value too large for defined data type")
       ELSE IF ~DigitsLess(m, IF ms.neg THEN DatetimeMinMs ELSE DatetimeMaxMs)
       THEN Raise("ValueError", "year is out of range")
       ELSE IF DigitsLess(NatDigits(MaxClockMs), m)
       THEN Return([rel |-> IF ms.neg THEN "earlier" ELSE "later", us |-> 0])
       ELSE Return([rel |-> "at",
                    us |-> (IF ms.neg THEN 0 - 1 ELSE 1) * DigitsValue(m) * 1000])

\* timestamp_is_valid with the boundary included (<= for <)
timestamp_is_valid_Inclusive(timestamp, current_time) ==
    LET ms == int(timestamp.v)
    IN IF ms.exc # "" THEN ms
       ELSE LET sanity_timestamp == fromtimestamp(ms.val)
            IN IF sanity_timestamp.exc # "" THEN sanity_timestamp
               ELSE IF sanity_timestamp.val.rel # "at"
               THEN Return(Bool(sanity_timestamp.val.rel = "later"))
               ELSE Return(Bool(current_time - sanity_timestamp.val.us <= FiveMinutes))

timestamp_is_valid(timestamp, current_time) ==
    LET ms == int(timestamp.v)
    IN IF ms.exc # "" THEN ms
       ELSE LET sanity_timestamp == fromtimestamp(ms.val)
            IN IF sanity_timestamp.exc # "" THEN sanity_timestamp
               ELSE IF sanity_timestamp.val.rel # "at"
               THEN Return(Bool(sanity_timestamp.val.rel = "later"))
               ELSE Return(Bool(current_time - sanity_timestamp.val.us < FiveMinutes))

\* ------------------------------------------------------------ contains_valid_signature

\* base64.b64encode(hmac.new(key, msg, sha256).digest()) on the keys and
\* messages of the model, as computed by the library.
HmacSha256Table ==
    (  <<<<"k","2">>,
         <<"1","0","0","0",".","{","}">>>> :>
         <<"9","z","x","z","L","8","0","e","C","v","k","g","+","o","P","z","H","G","/","k","L","Y","K","E","T","r","4","3","n","A","K","g","L","F","q","7","V","g","w","M","J","e","I","=">>
    @@ <<<<"k","2">>,
         <<"1","0","0","0",".","1">>>> :>
         <<"h","c","Z","a","M","1","q","0","I","a","J","3","P","T","M","E","1","E","Z","R","O","C","w","Q","G","b","u","U","7","u","V","i","L","M","x","T","m","S","s","x","C","d","M","=">>
    @@ <<<<"k","2">>,
         <<"2","5","3","4","0","2","3","0","0","7","9","9","9","9","9",".","{","}">>>> :>
         <<"u","p","A","T","q","M","5","L","j","R","e","d","t","T","D","4","u","G","y","B","q","1","h","4","L","1","6","x","K","z","0","Y","B","k","K","G","J","5","Y","o","p","3","c","=">>
    @@ <<<<"k","2">>,
         <<"2","5","3","4","0","2","3","0","0","7","9","9","9","9","9",".","1">>>> :>
         <<"T","6","U","V","Q","S","G","T","q","R","s","k","e","t","p","Z","V","W","9","H","F","T","6","5","k","y","x","+","S","E","s","V","j","+","I","h","R","K","9","y","7","r","Q","=">>
    @@ <<<<"k","e","y">>,
         <<"1","0","0","0",".","{","}">>>> :>
         <<"w","y","3","k","I","0","H","e","z","n","m","h","U","R","y","e","f","3","S","i","c","0","E","S","7","c","/","P","S","J","Q","8","l","2","+","v","B","w","R","w","Z","d","s","=">>
    @@ <<<<"k","e","y">>,
         <<"1","0","0","0",".","1">>>> :>
         <<"k","1","z","s","4","o","9","q","M","6","C","b","1","8","Q","i","1","U","3","K","R","Y","e","V","i","h","k","U","4","E","f","z","h","a","N","V","D","A","O","o","5","j","Q","=">>
    @@ <<<<"k","e","y">>,
         <<"2","5","3","4","0","2","3","0","0","7","9","9","9","9","9",".","{","}">>>> :>
         <<"J","H","H","d","D","r","3","Z","8","c","S","v","j","h","l","D","R","9","q","5","w","8","J","d","Q","b","l","l","k","d","i","X","2","R","K","t","l","w","d","N","5","W","A","=">>
    @@ <<<<"k","e","y">>,
         <<"2","5","3","4","0","2","3","0","0","7","9","9","9","9","9",".","1">>>> :>
         <<"9","U","7","C","K","/","f","Q","Z","S","Y","X","7","a","d","r","Q","q","2","X","T","t","M","9","H","u","W","r","d","5","1","C","w","v","C","Q","4","5","B","P","a","D","w","=">>
    @@ <<<<"k","2">>,
         <<"+","1","0","0","0",".","{","}">>>> :>
         <<"s","j","S","O","7","R","P","E","K","7","M","D","e","N","l","o","V","B","x","S","l","Q","x","L","d","Y","u","7","D","w","x","/","w","0","6","n","f","B","E","W","M","+","4","=">>
    @@ <<<<"k","2">>,
         <<"+","1","0","0","0",".","1">>>> :>
         <<"C","R","q","f","/","s","0","Q","b","u","q","A","r","x","o","l","K","T","R","U","h","Q","1","/","Z","K","f","e","+","j","s","b","W","w","C","L","Q","1","s","D","V","c","Q","=">>
    @@ <<<<"k","e","y">>,
         <<"+","1","0","0","0",".","{","}">>>> :>
         <<"s","3","y","6","x","g","x","l","g","j","+","3","j","t","G","4","+","0","Y","f","B","R","l","K","7","1","s","C","A","K","s","K","E","k","9","K","n","S","C","z","c","0","s","=">>
    @@ <<<<"k","e","y">>,
         <<"+","1","0","0","0",".","1">>>> :>
         <<"E","j","d","R","R","B","j","N","u","i","m","1","y","1","N","D","4","n","D","A","7","z","i","Q","3","f","h","t","a","+","p","5","G","M","w","1","y","h","n","e","H","U","I","=">> )

hmac_sha256_b64(key, msg) == HmacSha256Table[<<key, msg>>]

\* computed_signature with the padding left in
computed_signature_Padded(key, msg) ==
    Replace(Replace(hmac_sha256_b64(key, msg), "/", "_"), "+", "-")

computed_signature(key, msg) ==
    RStrip(Replace(Replace(hmac_sha256_b64(key, msg), "/", "_"), "+", "-"), "=")

IsAscii(s) == \A i \in 1..Len(s) : s[i] \in AsciiChars

\* hmac.compare_digest on two str
compare_digest(a, b) ==
    IF ~IsAscii(a) \/ ~IsAscii(b)
    THEN Raise("TypeError", "comparing strings with non-ASCII characters is not supported")
    ELSE Return(Bool(a = b))

\* any(compare_digest(s, computed) for s in signatures): the candidates are
\* compared in order up to the first match or the first error
AnyMatch(signatures, computed) ==
    LET Compare(st, signature) ==
            IF st.exc # "" \/ st.val.v THEN st
            ELSE compare_digest(signature.v, computed)
        RECURSIVE Loop(_, _, _)
        Loop(lo, hi, st) ==
            IF lo > hi THEN st
            ELSE IF lo = hi THEN Compare(st, signatures[lo])
            ELSE LET mid == (lo + hi) \div 2
                     left == Loop(lo, mid, st)
                 IN IF left = left THEN Loop(mid + 1, hi, left) ELSE left
    IN Loop(1, Len(signatures), Return(Bool(FALSE)))

contains_valid_signature(payload, timestamp, signatures, secret_) ==
    IF payload.type # "str"
    THEN Raise("TypeError", "can only concatenate str to str")
    ELSE AnyMatch(signatures.v,
             computed_signature(secret_.v, timestamp.v \o <<".">> \o payload.v))

\* ------------------------------------------------------------ validate_webhook

\* The result carries the helpers the call evaluated, in order.
WithCalls(r, calls) == [k \in DOMAIN r \cup {"calls"} |-> IF k = "calls" THEN calls ELSE r[k]]

validate_webhook(event_, secret_, current_time) ==
    LET headers == Get(event_, "headers", EmptyDict)
        parsed == parse_signature(Get(headers, "sanity-webhook-signature", None))
    IN IF parsed.exc # "" THEN WithCalls(parsed, <<"parse_signature">>)
       ELSE LET timestamp == parsed.val[1]
                signatures == parsed.val[2]
            IN IF Falsy(timestamp)
               THEN WithCalls(Return(Bool(FALSE)), <<"parse_signature">>)
               ELSE LET valid == timestamp_is_valid(timestamp, current_time)
                        checked == <<"parse_signature", "timestamp_is_valid">>
                    IN IF valid.exc # "" THEN WithCalls(valid, checked)
                       ELSE IF ~valid.val.v THEN WithCalls(Return(Bool(FALSE)), checked)
                       ELSE IF "body" \notin DOMAIN event_
                       THEN WithCalls(Raise("KeyError", "body"), checked)
                       ELSE WithCalls(
                                contains_valid_signature(event_["body"], timestamp,
                                                         signatures, secret_),
                                Append(checked, "contains_valid_signature"))

\* ------------------------------------------------------------ get_content_type

\* s.count('"', 0, end) - s.count('\\"', 0, end) of cgi._parseparam, end 0-based
QuoteCount(s, end) ==
    Cardinality({i \in 1..end : s[i] = "\""})
    - Cardinality({i \in 1..(end - 1) : s[i] = "\\" /\ s[i + 1] = "\""})

\* the inner while loop of cgi._parseparam: from the first ';' on, skip every
\* ';' inside a quoted string; the end of s if no ';' is left
ParamEnd(s) ==
    LET Inside(end) == end > 0 /\ QuoteCount(s, end) % 2 = 1
        ends == {e \in 0..(Len(s) - 1) : s[e + 1] = ";" /\ ~Inside(e)}
    IN IF ends = {} THEN Len(s)
       ELSE CHOOSE e \in ends : \A f \in ends : e <= f

\* cgi.parse_header(line)[0]: the text before the first parameter, stripped
parse_header(line) == Strip(SubSeq(line, 1, ParamEnd(line)))

get_content_type(headers) ==
    LET raw_content_type == Get(headers, "content-type", None)
    IN IF raw_content_type = None THEN None
       ELSE Str(parse_header(raw_content_type.v))

\* ------------------------------------------------------------ normalize_body

\* One character of binascii.a2b_base64 (not strict): a character outside
\* the alphabet is skipped, a complete pad sequence ends the input.  out is
\* the sequence of bytes.
A2bStep(st, c) ==
    IF st.done THEN st
    ELSE IF c = "="
    THEN IF st.quad_pos >= 2 /\ st.quad_pos + st.pads + 1 >= 4
         THEN [st EXCEPT !.done = TRUE]
         ELSE [st EXCEPT !.pads = IF st.quad_pos >= 2 THEN @ + 1 ELSE @]
    ELSE IF c \notin Range(Base64Alphabet) THEN st
    ELSE LET this_ch == IndexOf(c, Base64Alphabet) - 1
         IN CASE st.quad_pos = 0 ->
                   [st EXCEPT !.quad_pos = 1, !.leftchar = this_ch, !.pads = 0]
              [] st.quad_pos = 1 ->
                   [st EXCEPT !.quad_pos = 2, !.leftchar = this_ch % 16, !.pads = 0,
                              !.out = Append(@, st.leftchar * 4 + this_ch \div 16)]
              [] st.quad_pos = 2 ->
                   [st EXCEPT !.quad_pos = 3, !.leftchar = this_ch % 4, !.pads = 0,
                              !.out = Append(@, st.leftchar * 16 + this_ch \div 4)]
              [] st.quad_pos = 3 ->
                   [st EXCEPT !.quad_pos = 0, !.leftchar = 0, !.pads = 0,
                              !.out = Append(@, st.leftchar * 64 + this_ch)]

\* binascii.a2b_base64(s): leftover characters are an error
A2bBase64(s) ==
    LET RECURSIVE Loop(_, _, _)
        Loop(lo, hi, st) ==
            IF lo > hi THEN st
            ELSE IF lo = hi THEN A2bStep(st, s[lo])
            ELSE LET mid == (lo + hi) \div 2
                     left == Loop(lo, mid, st)
                 IN IF left = left THEN Loop(mid + 1, hi, left) ELSE left
        st == Loop(1, Len(s),
                   [quad_pos |-> 0, leftchar |-> 0, pads |-> 0, out |-> <<>>,
                    done |-> FALSE])
    IN IF st.done \/ st.quad_pos = 0 THEN Return(st.out)
       ELSE IF st.quad_pos = 1
       THEN Raise("binascii.Error", "Invalid base64-encoded string")
       ELSE Raise("binascii.Error", "Incorrect padding")

\* One byte of bytes.decode("utf-8"): a character takes one to four bytes;
\* need is the number of bytes the character still lacks, cp what is read of
\* its code point, lo..hi the range of its next byte.  An overlong, surrogate
\* or out-of-range sequence is an error.
Utf8Step(st, b) ==
    IF st.err THEN st
    ELSE IF st.need = 0
    THEN IF b < 128 THEN [st EXCEPT !.out = Append(@, Chr(b))]
         ELSE IF b \in 194..223
         THEN [st EXCEPT !.need = 1, !.cp = b - 192, !.lo = 128, !.hi = 191]
         ELSE IF b \in 224..239
         THEN [st EXCEPT !.need = 2, !.cp = b - 224,
                         !.lo = IF b = 224 THEN 160 ELSE 128,
                         !.hi = IF b = 237 THEN 159 ELSE 191]
         ELSE IF b \in 240..244
         THEN [st EXCEPT !.need = 3, !.cp = b - 240,
                         !.lo = IF b = 240 THEN 144 ELSE 128,
                         !.hi = IF b = 244 THEN 143 ELSE 191]
         ELSE [st EXCEPT !.err = TRUE]
    ELSE IF b < st.lo \/ b > st.hi THEN [st EXCEPT !.err = TRUE]
    ELSE IF st.need = 1
    THEN [st EXCEPT !.need = 0, !.out = Append(@, Chr(st.cp * 64 + b - 128))]
    ELSE [st EXCEPT !.need = @ - 1, !.cp = @ * 64 + b - 128, !.lo = 128, !.hi = 191]

\* bytes.decode("utf-8"); a character cut short at the end is an error
Utf8Decode(bytes) ==
    LET RECURSIVE Loop(_, _, _)
        Loop(lo, hi, st) ==
            IF lo > hi THEN st
            ELSE IF lo = hi THEN Utf8Step(st, bytes[lo])
            ELSE LET mid == (lo + hi) \div 2
                     left == Loop(lo, mid, st)
                 IN IF left = left THEN Loop(mid + 1, hi, left) ELSE left
        st == Loop(1, Len(bytes),
                   [need |-> 0, cp |-> 0, lo |-> 128, hi |-> 191, out |-> <<>>,
                    err |-> FALSE])
    IN IF st.err \/ st.need # 0
       THEN Raise("UnicodeDecodeError", "'utf-8' codec can't decode byte")
       ELSE Return(st.out)

\* base64.b64decode(s).decode("utf-8") for a str s
b64decode_utf8(s) ==
    IF ~IsAscii(s)
    THEN Raise("ValueError", "string argument should contain only ASCII characters")
    ELSE LET bytes == A2bBase64(s)
         IN IF bytes.exc # "" THEN bytes
            ELSE Utf8Decode(bytes.val)

normalize_body(raw_payload, is_base64_encoded) ==
    IF raw_payload = None THEN Raise("ValueError", "Missing event body")
    ELSE IF is_base64_encoded.v
    THEN LET d == b64decode_utf8(raw_payload.v)
         IN IF d.exc # "" THEN d ELSE Return(Str(d.val))
    ELSE Return(raw_payload)

\* ------------------------------------------------------------ get_json_payload

\* the blanks json skips around a document and between its tokens
JsonWhitespace == {" ", Chr(9), Chr(10), Chr(13)}

\* the characters a JSON string cannot hold unescaped
ControlChars == {Chr(n) : n \in 0..31}

HexChars == Range(HexDigits) \cup {"a", "b", "c", "d", "e", "f"}

\* The nesting of arrays and objects at which the scanner exceeds
\* sys.getrecursionlimit() (1000) when parse_webhook is called from the top
\* level of a module: six frames are taken (the module, parse_webhook,
\* get_json_payload, json.loads, decode, raw_decode), and every further frame
\* of the caller lowers the nesting by one.
JsonNestingLimit == 994

\* the levels that building a JSONDecodeError inside the scanner takes
JsonErrorLevels == 3

\* what follows the text of a document
EndOfText == "EOF"

\* The scanner of json (scan_once, scanstring, the number matcher) reads the
\* document one character at a time.  Its state: mode, what it expects;
\* stack, the arrays and objects it is inside of; n, the digits of the
\* integer part of a number, or the hex digits an escape still lacks; float,
\* the number has a fraction or an exponent; key, the string is a key; rest,
\* what is left of a literal; err, the error it stopped with.
JsonStart ==
    [mode |-> "value", stack |-> <<>>, n |-> 0, float |-> FALSE, key |-> FALSE,
     rest |-> <<>>, err |-> ""]

\* "Expecting value", "Extra data": raised once the scanner has returned
ExpectingValue(st) == [st EXCEPT !.err = "JSONDecodeError"]

\* an error raised inside the scanner: the JSONDecodeError, or the
\* RecursionError when there are no levels left to build it
ScannerError(st) ==
    [st EXCEPT !.err = IF Len(st.stack) >= JsonNestingLimit - JsonErrorLevels
                       THEN "RecursionError" ELSE "JSONDecodeError"]

\* a value is complete
AfterValue(st) ==
    [st EXCEPT !.mode = IF st.stack = <<>> THEN "end" ELSE "after"]

Pop(st) == AfterValue([st EXCEPT !.stack = SubSeq(@, 1, Len(@) - 1)])

\* the character after a value: a delimiter inside an array or an object,
\* nothing but blanks after the document
AfterStep(st, c) ==
    IF c \in JsonWhitespace THEN st
    ELSE IF st.stack = <<>>
    THEN IF c = EndOfText THEN [st EXCEPT !.mode = "done"] ELSE ExpectingValue(st)
    ELSE IF st.stack[Len(st.stack)] = "["
    THEN IF c = "," THEN [st EXCEPT !.mode = "value"]
         ELSE IF c = "]" THEN Pop(st)
         ELSE ScannerError(st)
    ELSE IF c = "," THEN [st EXCEPT !.mode = "key"]
         ELSE IF c = "}" THEN Pop(st)
         ELSE ScannerError(st)

\* a number ends before character c; an integer of too many digits is
\* refused by int()
EndNumber(st, c) ==
    IF ~st.float /\ st.n > IntMaxStrDigits THEN [st EXCEPT !.err = "ValueError"]
    ELSE AfterStep(AfterValue(st), c)

\* the first character of a value
ValueStep(st, c) ==
    IF c = "\"" THEN [st EXCEPT !.mode = "string", !.key = FALSE]
    ELSE IF c \in {"{", "["}
    THEN IF Len(st.stack) + 1 >= JsonNestingLimit
         THEN [st EXCEPT !.err = "RecursionError"]
         ELSE [st EXCEPT !.stack = Append(@, c),
                         !.mode = IF c = "{" THEN "members" ELSE "elements"]
    ELSE IF c = "n" THEN [st EXCEPT !.mode = "literal", !.rest = <<"u","l","l">>]
    ELSE IF c = "t" THEN [st EXCEPT !.mode = "literal", !.rest = <<"r","u","e">>]
    ELSE IF c = "f" THEN [st EXCEPT !.mode = "literal", !.rest = <<"a","l","s","e">>]
    ELSE IF c = "N" THEN [st EXCEPT !.mode = "literal", !.rest = <<"a","N">>]
    ELSE IF c = "I"
    THEN [st EXCEPT !.mode = "literal", !.rest = <<"n","f","i","n","i","t","y">>]
    ELSE IF c = "-" THEN [st EXCEPT !.mode = "minus"]
    ELSE IF c = "0" THEN [st EXCEPT !.mode = "zero", !.n = 1, !.float = FALSE]
    ELSE IF c \in Range(Digits) THEN [st EXCEPT !.mode = "int", !.n = 1, !.float = FALSE]
    ELSE ExpectingValue(st)

\* one character of a number: -? (0 | [1-9][0-9]*) (. [0-9]+)? ([eE] [-+]? [0-9]+)?
\* A '.' or an exponent that no digit follows is not part of the number.
NumberStep(st, c) ==
    LET digit == c \in Range(Digits)
    IN CASE st.mode = "minus" ->
              IF c = "I"
              THEN [st EXCEPT !.mode = "literal", !.rest = <<"n","f","i","n","i","t","y">>]
              ELSE IF digit THEN ValueStep(st, c)
              ELSE ExpectingValue(st)
         [] st.mode = "zero" ->
              IF c = "." THEN [st EXCEPT !.mode = "dot"]
              ELSE IF c \in {"e", "E"} THEN [st EXCEPT !.mode = "exp"]
              ELSE EndNumber(st, c)
         [] st.mode = "int" ->
              IF digit THEN [st EXCEPT !.n = @ + 1]
              ELSE IF c = "." THEN [st EXCEPT !.mode = "dot"]
              ELSE IF c \in {"e", "E"} THEN [st EXCEPT !.mode = "exp"]
              ELSE EndNumber(st, c)
         [] st.mode = "dot" ->
              IF digit THEN [st EXCEPT !.mode = "frac", !.float = TRUE]
              ELSE EndNumber(st, ".")
         [] st.mode = "frac" ->
              IF digit THEN st
              ELSE IF c \in {"e", "E"} THEN [st EXCEPT !.mode = "exp"]
              ELSE EndNumber(st, c)
         [] st.mode = "exp" ->
              IF c \in {"+", "-"} THEN [st EXCEPT !.mode = "expsign"]
              ELSE IF digit THEN [st EXCEPT !.mode = "expdigits", !.float = TRUE]
              ELSE EndNumber(st, "e")
         [] st.mode = "expsign" ->
              IF digit THEN [st EXCEPT !.mode = "expdigits", !.float = TRUE]
              ELSE EndNumber(st, "e")
         [] st.mode = "expdigits" ->
              IF digit THEN st ELSE EndNumber(st, c)

\* one character of a string, after its opening quote
StringStep(st, c) ==
    CASE st.mode = "string" ->
           IF c = "\""
           THEN IF st.key THEN [st EXCEPT !.mode = "colon"] ELSE AfterValue(st)
           ELSE IF c = "\\" THEN [st EXCEPT !.mode = "escape"]
           ELSE IF c \in ControlChars \cup {EndOfText} THEN ScannerError(st)
           ELSE st
      [] st.mode = "escape" ->
           IF c \in {"\"", "\\", "/", "b", "f", "n", "r", "t"}
           THEN [st EXCEPT !.mode = "string"]
           ELSE IF c = "u" THEN [st EXCEPT !.mode = "hex", !.n = 4]
           ELSE ScannerError(st)
      [] st.mode = "hex" ->
           IF c \notin HexChars THEN ScannerError(st)
           ELSE IF st.n = 1 THEN [st EXCEPT !.mode = "string"]
           ELSE [st EXCEPT !.n = @ - 1]

JsonStep(st, c) ==
    IF st.err # "" THEN st
    ELSE CASE st.mode = "value" ->
                IF c \in JsonWhitespace THEN st ELSE ValueStep(st, c)
           [] st.mode = "elements" ->
                IF c \in JsonWhitespace THEN st
                ELSE IF c = "]" THEN Pop(st)
                ELSE ValueStep(st, c)
           [] st.mode \in {"members", "key"} ->
                IF c \in JsonWhitespace THEN st
                ELSE IF c = "}" /\ st.mode = "members" THEN Pop(st)
                ELSE IF c = "\"" THEN [st EXCEPT !.mode = "string", !.key = TRUE]
                ELSE ScannerError(st)
           [] st.mode = "colon" ->
                IF c \in JsonWhitespace THEN st
                ELSE IF c = ":" THEN [st EXCEPT !.mode = "value"]
                ELSE ScannerError(st)
           [] st.mode = "literal" ->
                IF c # st.rest[1] THEN ExpectingValue(st)
                ELSE IF Len(st.rest) = 1 THEN AfterValue(st)
                ELSE [st EXCEPT !.rest = Tail(@)]
           [] st.mode \in {"string", "escape", "hex"} -> StringStep(st, c)
           [] st.mode \in {"after", "end"} -> AfterStep(st, c)
           [] st.mode = "done" -> st
           [] OTHER -> NumberStep(st, c)

\* json.loads(s) for a str s: one value with blanks around it.  The value is
\* kept as its text.
json_loads(s) ==
    LET text == Append(s, EndOfText)
        RECURSIVE Loop(_, _, _)
        Loop(lo, hi, st) ==
            IF lo > hi THEN st
            ELSE IF lo = hi THEN JsonStep(st, text[lo])
            ELSE LET mid == (lo + hi) \div 2
                     left == Loop(lo, mid, st)
                 IN IF left = left THEN Loop(mid + 1, hi, left) ELSE left
        st == Loop(1, Len(text), JsonStart)
    IN IF st.err # "" THEN Raise(st.err, "")
       ELSE Return([type |-> "json", v |-> StripChars(s, JsonWhitespace)])

\* the exceptions of this module that are subclasses of ValueError
IsValueError(e) == e \in {"ValueError", "JSONDecodeError", "binascii.Error", "UnicodeDecodeError"}

\* get_json_payload reading the body before it checks the content type
get_json_payload_BodyFirst(event_) ==
    IF "isBase64Encoded" \notin DOMAIN event_
    THEN Raise("KeyError", "isBase64Encoded")
    ELSE LET payload == normalize_body(Get(event_, "body", None),
                                       event_["isBase64Encoded"])
         IN IF payload.exc # "" THEN payload
            ELSE IF get_content_type(Get(event_, "headers", EmptyDict)) # Str(<<"a","p","p","l","i","c","a","t","i","o","n","/","j","s","o","n">>)
            THEN Raise("ValueError", "Unsupported content-type")
            ELSE LET payload_json == json_loads(payload.val.v)
                 IN IF IsValueError(payload_json.exc)
                    THEN Raise("ValueError", "Invalid JSON payload")
                    ELSE payload_json

get_json_payload(event_) ==
    LET content_type == get_content_type(Get(event_, "headers", EmptyDict))
    IN IF content_type # Str(<<"a","p","p","l","i","c","a","t","i","o","n","/","j","s","o","n">>)
       THEN Raise("ValueError", "Unsupported content-type")
       ELSE IF "isBase64Encoded" \notin DOMAIN event_
       THEN Raise("KeyError", "isBase64Encoded")
       ELSE LET payload == normalize_body(Get(event_, "body", None),
                                          event_["isBase64Encoded"])
            IN IF payload.exc # "" THEN payload
               ELSE LET payload_json == json_loads(payload.val.v)
                    IN IF IsValueError(payload_json.exc)
                       THEN Raise("ValueError", "Invalid JSON payload")
                       ELSE payload_json

parse_webhook(event_) == get_json_payload(event_)

\* ------------------------------------------------------------ inputs

\* elements of a signature header: at most MaxElems per header
MaxElems == 3

\* clock readings within MaxDelta microseconds of the validity boundary
MaxDelta == 2

\* the timestamp of the events of the model, in milliseconds
EventMs == <<"1","0","0","0">>

\* the same instant written with a sign
SignedEventMs == <<"+">> \o EventMs

FarFutureMs == <<"2","5","3","4","0","2","3","0","0","7","9","9","9","9","9">>

SigK2 ==
    <<"9","z","x","z","L","8","0","e","C","v","k","g","-","o","P","z","H","G","_","k","L","Y","K","E","T","r","4","3","n","A","K","g","L","F","q","7","V","g","w","M","J","e","I">>

SigKey ==
    <<"w","y","3","k","I","0","H","e","z","n","m","h","U","R","y","e","f","3","S","i","c","0","E","S","7","c","_","P","S","J","Q","8","l","2","-","v","B","w","R","w","Z","d","s">>

\* the digest of (k2, 1000.{}) as base64 gives it: '+', '/' and padding kept
RawK2 ==
    <<"9","z","x","z","L","8","0","e","C","v","k","g","+","o","P","z","H","G","/","k","L","Y","K","E","T","r","4","3","n","A","K","g","L","F","q","7","V","g","w","M","J","e","I","=">>

TimestampValues ==
    {EventMs, SignedEventMs, <<>>, <<"1","x">>, FarFutureMs}

CandidateValues ==
    {SigK2, SigKey, RawK2, <<NonAscii>>}

HeaderElements ==
    {<<"t","=">> \o t : t \in TimestampValues}
    \cup {<<"v","1","=">> \o c : c \in CandidateValues}
    \cup {<<"x","=","1">>, <<"b","a","d">>}

RECURSIVE SeqsUpTo(_, _)
SeqsUpTo(S, n) ==
    IF n = 0 THEN {<<>>}
    ELSE LET shorter == SeqsUpTo(S, n - 1)
         IN shorter \cup {Append(q, e) : q \in {p \in shorter : Len(p) = n - 1}, e \in S}

SignatureHeaders == {Join(es, ",") : es \in SeqsUpTo(HeaderElements, MaxElems)}

Secrets == {<<"k","2">>, <<"k","e","y">>}

VerifyBodies == {<<"{","}">>, <<"1">>}

EventUs == DigitsValue(EventMs) * 1000

FourMinutes == 4 * 60 * 1000000

SixMinutes == 6 * 60 * 1000000

ClockValues ==
    {0, EventUs + FourMinutes, EventUs + SixMinutes}
    \cup {EventUs + FiveMinutes + d : d \in (0 - MaxDelta)..MaxDelta}

\* clock readings of the verification runs: the event is one microsecond
\* inside the window, or exactly five minutes old
VerifyClock == {EventUs + FiveMinutes - 1, EventUs + FiveMinutes}

\* dicts {"headers": ...} with and without the keys of interest
HeadersOf(name, values) == {name :> Str(v) : v \in values}

WithKey(dicts, key, values) ==
    dicts \cup {(key :> v) @@ d : d \in dicts, v \in values}

VerifyEvents ==
    LET hs == {EmptyDict} \cup HeadersOf("sanity-webhook-signature", SignatureHeaders)
        es == {EmptyDict} \cup {"headers" :> h : h \in hs}
    IN WithKey(es, "body", {None} \cup {Str(b) : b \in VerifyBodies})

\* arguments of timestamp_is_valid called on its own
TimestampArgs ==
    TimestampValues
    \cup {<<"0">>, <<"0","1","0","0","0">>, <<"1","0","0","1">>, <<NonAscii>>,
          NatDigits(MaxClockMs), NatDigits(MaxClockMs + 1),
          <<"9","9","9","9","9","9","9","9","9","9","9","9","9","9","9","9">>}
    \* a sign, blanks, underscores and digits outside ASCII
    \cup {<<"-">> \o EventMs, <<"-","0">>, <<"-">> \o NatDigits(MaxClockMs + 1),
          <<" ">> \o EventMs, EventMs \o <<Chr(10)>>, <<Chr(28)>> \o EventMs,
          <<"1","_","0","0","0">>, <<"1","_","_","0","0","0">>, <<"+"," ","1">>,
          <<Chr(65297), Chr(65296), Chr(65296), Chr(65296)>>}
    \* the first instant of each kind that datetime cannot hold
    \cup {DatetimeMaxMs, LocaltimeMaxMs, TimeTMaxMs, FloatMaxMs,
          <<"-">> \o DatetimeMinMs, <<"-">> \o LocaltimeMinMs, <<"-">> \o TimeTMinMs,
          <<"-">> \o FloatMaxMs, [i \in 1..(IntMaxStrDigits + 1) |-> "9"]}
    \* too many digits before a character that is no digit, and U+007F
    \* in an ASCII and in another str
    \cup {[i \in 1..(IntMaxStrDigits + 2) |-> IF i <= IntMaxStrDigits + 1 THEN "9" ELSE "x"],
          <<"1", Chr(127)>>, <<"1", Chr(127), NonAscii>>}

ContentTypeValues ==
    {<<"a","p","p","l","i","c","a","t","i","o","n","/","j","s","o","n">>,
     <<"a","p","p","l","i","c","a","t","i","o","n","/","j","s","o","n",Chr(9),";"," ","x","=","1">>,
     <<"a","p","p","l","i","c","a","t","i","o","n","/","j","s","o","n",";"," ","c","h","a","r","s","e","t","=","u","t","f","-","8">>,
     <<"t","e","x","t","/","p","l","a","i","n">>,
     <<"A","p","p","l","i","c","a","t","i","o","n","/","J","S","O","N">>,
     <<>>}

\* "{}" and "1" as they are and base64-encoded, a string that is neither
\* JSON nor base64, an object with a member, and the base64 of a JSON string
\* holding a two-byte character and of a byte that is no UTF-8
PayloadBodies ==
    {<<"{","}">>, <<"e","3","0","=">>, <<"1">>, <<"M","Q","=","=">>, <<"x">>,
     <<"{","\"","a","\"",":"," ","[","1",".","5",","," ","\"","x","\"","]","}">>,
     <<"I","s","O","p","I","g","=","=">>, <<"/","w","=","=">>}

PayloadEvents ==
    LET hs == {EmptyDict} \cup HeadersOf("content-type", ContentTypeValues)
                          \cup HeadersOf("Content-Type", ContentTypeValues)
        es == {EmptyDict} \cup {"headers" :> h : h \in hs}
        bs == WithKey(es, "body", {None} \cup {Str(b) : b \in PayloadBodies})
    IN WithKey(bs, "isBase64Encoded", {Bool(TRUE), Bool(FALSE)})

NoResult == [op |-> "none"]

Init ==
    /\ event \in VerifyEvents
    /\ secret \in {Str(s) : s \in Secrets}
    /\ arg = None
    /\ now \in VerifyClock
    /\ pc = "ready"
    /\ result = NoResult

InitTimestamp ==
    /\ event = EmptyDict
    /\ secret = Str(<<>>)
    /\ arg \in {Str(t) : t \in TimestampArgs}
    /\ now \in ClockValues
    /\ pc = "ready"
    /\ result = NoResult

InitPayload ==
    /\ event \in PayloadEvents
    /\ secret = Str(<<>>)
    /\ arg = None
    /\ now = 0
    /\ pc = "ready"
    /\ result = NoResult

\* ------------------------------------------------------------ operations

\* the value of the event's signature header, as validate_webhook reads it
SignatureHeader == Get(Get(event, "headers", EmptyDict), "sanity-webhook-signature", None)

ParseSignature ==
    /\ pc = "ready"
    /\ result' = [op |-> "parse_signature", r |-> parse_signature(SignatureHeader)]
    /\ pc' = "done"
    /\ UNCHANGED <<event, secret, arg, now>>

ValidateWebhook ==
    /\ pc = "ready"
    /\ result' = [op |-> "validate_webhook", r |-> validate_webhook(event, secret, now)]
    /\ pc' = "done"
    /\ UNCHANGED <<event, secret, arg, now>>

TimestampIsValid ==
    /\ pc = "ready"
    /\ result' = [op |-> "timestamp_is_valid", r |-> timestamp_is_valid(arg, now)]
    /\ pc' = "done"
    /\ UNCHANGED <<event, secret, arg, now>>

ParseWebhook ==
    /\ pc = "ready"
    /\ result' = [op |-> "parse_webhook", r |-> parse_webhook(event)]
    /\ pc' = "done"
    /\ UNCHANGED <<event, secret, arg, now>>

Next == ParseSignature \/ ValidateWebhook

Spec == Init /\ [][Next]_vars

SpecTimestamp == InitTimestamp /\ [][TimestampIsValid]_vars

SpecPayload == InitPayload /\ [][ParseWebhook]_vars

\* ------------------------------------------------------------ properties

Done(op) == pc = "done" /\ result.op = op

Returned(v) == result.r.exc = "" /\ result.r.val = v

Raised(e) == result.r.exc = e

\* The signature header read as the specification reads it: the elements
\* between commas, each split at its first '=' into a key and a value.
HeaderAbsent == Falsy(SignatureHeader)

Elements ==
    LET s == SignatureHeader.v
        commas == {i \in 1..Len(s) : s[i] = ","}
        starts == {1} \cup {i + 1 : i \in commas}
        Piece(a) ==
            LET later == {i \in commas : i >= a}
            IN SubSeq(s, a, IF later = {} THEN Len(s)
                            ELSE (CHOOSE i \in later : \A j \in later : i <= j) - 1)
    IN [k \in 1..Cardinality(starts) |->
           Piece(CHOOSE a \in starts : Cardinality({b \in starts : b < a}) = k - 1)]

EqualsSigns(e) == Cardinality({i \in 1..Len(e) : e[i] = "="})

KeyOf(e) == SubSeq(e, 1, Find(e, "=") - 1)

ValueOf(e) == SubSeq(e, Find(e, "=") + 1, Len(e))

\* every element is one key and one value around a single '='
PairShaped ==
    /\ ~HeaderAbsent
    /\ LET es == Elements IN \A i \in 1..Len(es) : EqualsSigns(es[i]) = 1

TimestampIndexes == LET es == Elements IN {i \in 1..Len(es) : KeyOf(es[i]) = <<"t">>}

LastTimestamp ==
    LET es == Elements
        ts == TimestampIndexes
    IN ValueOf(es[CHOOSE i \in ts : \A j \in ts : j <= i])

Candidates ==
    LET v1 == SelectSeq(Elements, LAMBDA e : KeyOf(e) = <<"v","1">>)
    IN [i \in 1..Len(v1) |-> ValueOf(v1[i])]

\* t is an integer in decimal notation, as int() reads one
IsDecimal(t) == int(t).exc = ""

\* the event time t (milliseconds) is less than five minutes before `now`
AgeUnderFiveMinutes(t) ==
    LET n == int(t).val
    IN IF DigitsLess(NatDigits(MaxClockMs), n.digits) THEN ~n.neg
       ELSE IF n.neg THEN now + DigitsValue(n.digits) * 1000 < FiveMinutes
       ELSE now - DigitsValue(n.digits) * 1000 < FiveMinutes

\* the instant is one datetime can hold: from year 1 to year 9999
WithinDatetime(t) ==
    LET n == int(t).val
    IN DigitsLess(n.digits, IF n.neg THEN DatetimeMinMs ELSE DatetimeMaxMs)

HasStrBody == "body" \in DOMAIN event /\ event["body"].type = "str"

\* The signatures of the model's messages, computed apart from the model:
\* urlsafe base64 of HMAC-SHA256(secret, t + "." + body), padding removed.
GoldenSignature ==
    (  <<<<"k","2">>, <<"1","0","0","0">>,
         <<"{","}">>>> :>
         <<"9","z","x","z","L","8","0","e","C","v","k","g","-","o","P","z","H","G","_","k","L","Y","K","E","T","r","4","3","n","A","K","g","L","F","q","7","V","g","w","M","J","e","I">>
    @@ <<<<"k","2">>, <<"1","0","0","0">>,
         <<"1">>>> :>
         <<"h","c","Z","a","M","1","q","0","I","a","J","3","P","T","M","E","1","E","Z","R","O","C","w","Q","G","b","u","U","7","u","V","i","L","M","x","T","m","S","s","x","C","d","M">>
    @@ <<<<"k","2">>, <<"2","5","3","4","0","2","3","0","0","7","9","9","9","9","9">>,
         <<"{","}">>>> :>
         <<"u","p","A","T","q","M","5","L","j","R","e","d","t","T","D","4","u","G","y","B","q","1","h","4","L","1","6","x","K","z","0","Y","B","k","K","G","J","5","Y","o","p","3","c">>
    @@ <<<<"k","2">>, <<"2","5","3","4","0","2","3","0","0","7","9","9","9","9","9">>,
         <<"1">>>> :>
         <<"T","6","U","V","Q","S","G","T","q","R","s","k","e","t","p","Z","V","W","9","H","F","T","6","5","k","y","x","-","S","E","s","V","j","-","I","h","R","K","9","y","7","r","Q">>
    @@ <<<<"k","e","y">>, <<"1","0","0","0">>,
         <<"{","}">>>> :>
         <<"w","y","3","k","I","0","H","e","z","n","m","h","U","R","y","e","f","3","S","i","c","0","E","S","7","c","_","P","S","J","Q","8","l","2","-","v","B","w","R","w","Z","d","s">>
    @@ <<<<"k","e","y">>, <<"1","0","0","0">>,
         <<"1">>>> :>
         <<"k","1","z","s","4","o","9","q","M","6","C","b","1","8","Q","i","1","U","3","K","R","Y","e","V","i","h","k","U","4","E","f","z","h","a","N","V","D","A","O","o","5","j","Q">>
    @@ <<<<"k","e","y">>, <<"2","5","3","4","0","2","3","0","0","7","9","9","9","9","9">>,
         <<"{","}">>>> :>
         <<"J","H","H","d","D","r","3","Z","8","c","S","v","j","h","l","D","R","9","q","5","w","8","J","d","Q","b","l","l","k","d","i","X","2","R","K","t","l","w","d","N","5","W","A">>
    @@ <<<<"k","e","y">>, <<"2","5","3","4","0","2","3","0","0","7","9","9","9","9","9">>,
         <<"1">>>> :>
         <<"9","U","7","C","K","_","f","Q","Z","S","Y","X","7","a","d","r","Q","q","2","X","T","t","M","9","H","u","W","r","d","5","1","C","w","v","C","Q","4","5","B","P","a","D","w">>
    @@ <<<<"k","2">>, <<"+","1","0","0","0">>,
         <<"{","}">>>> :>
         <<"s","j","S","O","7","R","P","E","K","7","M","D","e","N","l","o","V","B","x","S","l","Q","x","L","d","Y","u","7","D","w","x","_","w","0","6","n","f","B","E","W","M","-","4">>
    @@ <<<<"k","2">>, <<"+","1","0","0","0">>,
         <<"1">>>> :>
         <<"C","R","q","f","_","s","0","Q","b","u","q","A","r","x","o","l","K","T","R","U","h","Q","1","_","Z","K","f","e","-","j","s","b","W","w","C","L","Q","1","s","D","V","c","Q">>
    @@ <<<<"k","e","y">>, <<"+","1","0","0","0">>,
         <<"{","}">>>> :>
         <<"s","3","y","6","x","g","x","l","g","j","-","3","j","t","G","4","-","0","Y","f","B","R","l","K","7","1","s","C","A","K","s","K","E","k","9","K","n","S","C","z","c","0","s">>
    @@ <<<<"k","e","y">>, <<"+","1","0","0","0">>,
         <<"1">>>> :>
         <<"E","j","d","R","R","B","j","N","u","i","m","1","y","1","N","D","4","n","D","A","7","z","i","Q","3","f","h","t","a","-","p","5","G","M","w","1","y","h","n","e","H","U","I">> )

Expected == GoldenSignature[<<secret.v, LastTimestamp, event["body"].v>>]

SomeCandidateMatches ==
    LET cs == Candidates
        expected == Expected
    IN \E i \in 1..Len(cs) : cs[i] = expected

\* C1: with a string body, a header of key=value pairs with base64url (ASCII)
\* candidates and a timestamp that timestamp_is_valid accepts, the call returns
\* True exactly when some v1 candidate equals the signature of t + "." + body
\* under the secret, and False with no candidate or only mismatching ones.
C1_ValidIffSomeCandidateMatches ==
    (/\ Done("validate_webhook")
     /\ HasStrBody
     /\ PairShaped
     /\ LET cs == Candidates IN \A i \in 1..Len(cs) : IsAscii(cs[i])
     /\ TimestampIndexes # {}
     /\ IsDecimal(LastTimestamp)
     /\ WithinDatetime(LastTimestamp)
     /\ AgeUnderFiveMinutes(LastTimestamp))
    => Returned(Bool(SomeCandidateMatches))

\* a True answer from the second of two candidates, the first one mismatching
C1_Witness ==
    /\ Done("validate_webhook")
    /\ PairShaped
    /\ Len(Candidates) = 2
    /\ HasStrBody
    /\ TimestampIndexes # {}
    /\ LastTimestamp = EventMs
    /\ Candidates[1] # Expected
    /\ Candidates[2] = Expected
    /\ Returned(Bool(TRUE))

\* what the claim expects timestamp_is_valid(arg) to return
ExpectedValidity == Bool(AgeUnderFiveMinutes(arg.v))

\* C2, as claimed: timestamp_is_valid(t) is True exactly when the age of t is
\* under five minutes, every future t being valid however far ahead.
C2_Original ==
    (Done("timestamp_is_valid") /\ IsDecimal(arg.v)) => Returned(ExpectedValidity)

\* C2, amended: timestamp_is_valid(t) is True exactly when the age of t is
\* strictly under five minutes (five minutes exactly is invalid) for every t
\* that datetime can hold, future ones included; from 253402300800000 ms
\* (year 10000, UTC) on, and before year 1, the call raises ValueError,
\* OSError or OverflowError.
C2_ValidIffAgeUnderFiveMinutes ==
    (Done("timestamp_is_valid") /\ IsDecimal(arg.v))
    => IF WithinDatetime(arg.v) THEN Returned(ExpectedValidity)
       ELSE result.r.exc \in {"ValueError", "OSError", "OverflowError"}

\* an event exactly five minutes old is refused
C2_Witness ==
    /\ Done("timestamp_is_valid")
    /\ arg.v = EventMs
    /\ now = EventUs + FiveMinutes
    /\ Returned(Bool(FALSE))

\* C3: without a signature header (no headers, no such key, or an empty
\* value) validate_webhook returns False, raises nothing, and evaluates
\* neither the timestamp check nor the signature matcher.
C3_AbsentHeaderIsFalse ==
    (Done("validate_webhook") /\ HeaderAbsent)
    => /\ Returned(Bool(FALSE))
       /\ result.r.calls = <<"parse_signature">>

\* the header is there and empty, the body and the secret are usable
C3_Witness ==
    /\ Done("validate_webhook")
    /\ "headers" \in DOMAIN event
    /\ "sanity-webhook-signature" \in DOMAIN event["headers"]
    /\ SignatureHeader = Str(<<>>)
    /\ HasStrBody
    /\ Returned(Bool(FALSE))

\* C4, as claimed: parse_signature raises exactly when the header is present
\* and some element holds no '='; a value holding further '=' is parsed.
C4_RaisesOnlyWithoutEquals ==
    Done("parse_signature")
    => (result.r.exc # ""
        <=> (/\ ~HeaderAbsent
             /\ LET es == Elements IN \E i \in 1..Len(es) : EqualsSigns(es[i]) = 0))

\* C5, as claimed: for a header of key=value pairs, no t gives False without
\* error, and a t that is not a decimal integer gives an error, never False.
C5_MissingAndNonNumericDiffer ==
    (Done("validate_webhook") /\ PairShaped)
    => /\ TimestampIndexes = {} => Returned(Bool(FALSE))
       /\ (TimestampIndexes # {} /\ ~IsDecimal(LastTimestamp)) => result.r.exc # ""

\* C6, as claimed: for a header of key=value pairs with a decimal t that
\* datetime can hold, an expired timestamp, or a fresh one without a matching
\* candidate, gives False and no error, whatever the candidates and whether
\* the body is a string or absent.
C6_NoErrorOnExpiredOrMismatch ==
    (/\ Done("validate_webhook")
     /\ PairShaped
     /\ TimestampIndexes # {}
     /\ IsDecimal(LastTimestamp)
     /\ WithinDatetime(LastTimestamp)
     /\ (~AgeUnderFiveMinutes(LastTimestamp) \/ ~HasStrBody \/ ~SomeCandidateMatches))
    => Returned(Bool(FALSE))

\* The content type as the specification reads it.
BodyIsNone == Get(event, "body", None) = None

MediaTypeOf(v) ==
    Strip(IF Find(v, ";") = 0 THEN v ELSE SubSeq(v, 1, Find(v, ";") - 1))

LowerCase(name) == IF name = "Content-Type" THEN "content-type" ELSE name

EventHeaders == Get(event, "headers", EmptyDict)

\* the header named content-type, in these letters, says application/json
ExactContentTypeIsJson ==
    /\ "content-type" \in DOMAIN EventHeaders
    /\ MediaTypeOf(EventHeaders["content-type"].v) = <<"a","p","p","l","i","c","a","t","i","o","n","/","j","s","o","n">>

\* some header named content-type, in any letter case, says application/json
AnyCaseContentTypeIsJson ==
    \E name \in DOMAIN EventHeaders :
        /\ LowerCase(name) = "content-type"
        /\ MediaTypeOf(EventHeaders[name].v) = <<"a","p","p","l","i","c","a","t","i","o","n","/","j","s","o","n">>

RaisedValueError(m) == result.r.exc = "ValueError" /\ result.r.msg = m

\* C7, as claimed: with a body of None, parse_webhook fails with "Missing
\* event body" whatever the content type.
C7_Original ==
    (Done("parse_webhook") /\ BodyIsNone) => RaisedValueError("Missing event body")

\* C7, amended: with a body of None, parse_webhook always fails: with
\* "Unsupported content-type" unless the content-type header says
\* application/json, and otherwise with "Missing event body" when the event
\* has its isBase64Encoded key (KeyError when it has not).
C7_NoneBodyFailsAfterContentType ==
    (Done("parse_webhook") /\ BodyIsNone)
    => IF ~ExactContentTypeIsJson THEN RaisedValueError("Unsupported content-type")
       ELSE IF "isBase64Encoded" \in DOMAIN event
       THEN RaisedValueError("Missing event body")
       ELSE Raised("KeyError")

\* a JSON content type, the flag present, the body None: the missing-body error
C7_Witness ==
    /\ Done("parse_webhook")
    /\ "body" \in DOMAIN event
    /\ BodyIsNone
    /\ ExactContentTypeIsJson
    /\ RaisedValueError("Missing event body")

\* C8, as claimed: the unsupported-content-type error is raised exactly when
\* no header named content-type, in any letter case, has the media type
\* application/json (parameters stripped), whatever the body.
C8_ContentTypeAnyCase ==
    Done("parse_webhook")
    => (RaisedValueError("Unsupported content-type") <=> ~AnyCaseContentTypeIsJson)

\* C9: for a non-empty header of key=value pairs, parse_signature returns the
\* value of the last t (None without one) and the values of all v1 elements
\* in their order, duplicates kept; other keys change nothing.
C9_LastTimestampAllCandidates ==
    (Done("parse_signature") /\ PairShaped)
    => LET cs == Candidates
       IN Returned(<<IF TimestampIndexes = {} THEN None ELSE Str(LastTimestamp),
                     List([i \in 1..Len(cs) |-> Str(cs[i])])>>)

\* two t elements with different values around one candidate: the last t wins
C9_Witness ==
    /\ Done("parse_signature")
    /\ PairShaped
    /\ \E i, j \in TimestampIndexes : i < j /\ ValueOf(Elements[i]) # ValueOf(Elements[j])
    /\ Len(Candidates) = 1
    /\ result.r.exc = ""
    /\ result.r.val[1] = Str(LastTimestamp)
    /\ Len(result.r.val[2].v) = 1

\* C10, as claimed: for an absent or empty header parse_signature returns
\* (None, []), the signatures being an empty sequence.
C10_AbsentHeaderGivesEmptyList ==
    (Done("parse_signature") /\ HeaderAbsent) => Returned(<<None, List(<<>>)>>)

====
